---- MODULE Spec2Model ----
(***************************************************************************)
(* backlog_template.py: the `post` command of BacklogProjectCLI.           *)
(* A template is loaded, the user confirms, the project metadata is        *)
(* fetched, and every top-level entry (a parent ticket and its children)   *)
(* is resolved, validated and POSTed.                                      *)
(*                                                                         *)
(* Strings are sequences of tokens; "{" and "}" are the two tokens         *)
(* str.format treats specially, every other token is literal text.         *)
(***************************************************************************)
EXTENDS Integers, Sequences, FiniteSets, TLC

VARIABLES
    pc,              \* position in BacklogProjectCLI.post
    keyring,         \* the credential stored for SPACE_DOMAIN (or None)
    new_api_key,     \* init: what getpass returned (or None before it did)
    project_key,     \* target.PROJECT_KEY of the template
    basedate,        \* config.basedate of the template (or None)
    repl,            \* config.repl of the template
    issues,          \* the entries of the template whose children the run has
                     \* read, in order: for each, how many children it has
    answer,          \* what the user typed at the prompt
    api_key,         \* BacklogSpace.api_key
    project_id,      \* BacklogProject.project_id
    priorities,      \* BacklogProject.priorities
    pj_issue_types,  \* BacklogProject.pj_issue_types
    pj_versions,     \* BacklogProject.pj_versions
    pj_users,        \* BacklogProject.pj_users
    i,               \* index of the entry the for loop of post is at
    parent0,         \* the parent ticket as written in the template
    parent,          \* the parent ticket, as post_affiliated_issue holds it
    children0,       \* the children as written in the template
    children,        \* the children, as post_affiliated_issue holds them
    j,               \* index of the child the for loop of line 132 is at
    parentIssueId,   \* r["id"] of the parent POST of this entry
    gets,            \* the GET requests issued so far, in order
    posts,           \* the POST requests issued so far, in order
    request,         \* the latest POST: the issue it was built from and its data
    log,             \* the records logger.info has emitted, in order
    error            \* the exception that ended the run, if any

vars == <<pc, keyring, new_api_key, project_key, basedate, repl, issues, answer, api_key,
          project_id, priorities, pj_issue_types, pj_versions, pj_users, i,
          parent0, parent, children0, children, j, parentIssueId, gets, posts,
          request, log, error>>

-----------------------------------------------------------------------------
(* Bounds of the model. *)

MaxEntries == 2

MaxChildren == 2

-----------------------------------------------------------------------------
(* Values of the template and of the program. *)

None == [type |-> "none"]

Str(s) == [type |-> "str", s |-> s]

Datetime(d, h) == [type |-> "datetime", day |-> d, hour |-> h]

\* a TOML inline table such as {days = 5, weeks = 1}: the kwargs of timedelta
Delta(d, w) == [type |-> "dict", days |-> d, weeks |-> w]

IntV(n) == [type |-> "int", n |-> n]

\* An exception: its class, the step that raised it, the ticket it was raised
\* for (0 the parent, k the k-th child), and what its message names.
NoError ==
    [kind |-> "none", stage |-> "none", ticket |-> 0, msg |-> "", key |-> "",
     value |-> <<>>]

Raise(kind, stage, ticket, msg, key, value) ==
    [kind |-> kind, stage |-> stage, ticket |-> ticket, msg |-> msg, key |-> key,
     value |-> value]

\* The outcome of a call: a value, or the exception it raised.
Ok(v) == [ok |-> TRUE, val |-> v, err |-> NoError]

Fail(e) == [ok |-> FALSE, val |-> <<>>, err |-> e]

Without(f, k) == [x \in DOMAIN f \ {k} |-> f[x]]

With(f, k, v) == [x \in DOMAIN f \cup {k} |-> IF x = k THEN v ELSE f[x]]

mandatory_keys == <<"summary", "issueType", "priority">>

substituted_keys == <<"priority", "issueType", "version", "milestone", "assignee">>

date_keys == <<"dueDate">>

\* the order in which a ticket's keys are written in the template
KeyOrder ==
    <<"summary", "issueType", "priority", "description", "dueDate", "version",
      "milestone", "assignee", "parentIssueId", "children">>

-----------------------------------------------------------------------------
(* str.format with keyword arguments, on a sequence of tokens. *)

\* the index of the first "}" at or after n with no "{" before it; 0 when a
\* "{" or the end of the string comes first
RECURSIVE FieldEnd(_, _)
FieldEnd(s, n) ==
    IF n > Len(s) \/ s[n] = "{" THEN 0
    ELSE IF s[n] = "}" THEN n
    ELSE FieldEnd(s, n + 1)

RECURSIVE FormatFrom(_, _, _, _)
FormatFrom(s, n, kwargs, acc) ==
    IF n > Len(s) THEN [ok |-> TRUE, val |-> acc, kind |-> "none", key |-> <<>>]
    ELSE IF s[n] = "{" THEN
        IF n = Len(s)
        THEN [ok |-> FALSE, val |-> <<>>, kind |-> "ValueError", key |-> <<>>]
        ELSE IF s[n + 1] = "{"
        THEN FormatFrom(s, n + 2, kwargs, Append(acc, "{"))
        ELSE LET e == FieldEnd(s, n + 1)
                 name == SubSeq(s, n + 1, e - 1)
             IN IF e = 0
                THEN [ok |-> FALSE, val |-> <<>>, kind |-> "ValueError", key |-> <<>>]
                ELSE IF name = <<>>
                THEN [ok |-> FALSE, val |-> <<>>, kind |-> "IndexError", key |-> <<>>]
                ELSE IF name \notin DOMAIN kwargs
                THEN [ok |-> FALSE, val |-> <<>>, kind |-> "KeyError", key |-> name]
                ELSE FormatFrom(s, e + 1, kwargs, acc \o kwargs[name])
    ELSE IF s[n] = "}" THEN
        IF n < Len(s) /\ s[n + 1] = "}"
        THEN FormatFrom(s, n + 2, kwargs, Append(acc, "}"))
        ELSE [ok |-> FALSE, val |-> <<>>, kind |-> "ValueError", key |-> <<>>]
    ELSE FormatFrom(s, n + 1, kwargs, Append(acc, s[n]))

Format(s, kwargs) == FormatFrom(s, 1, kwargs, <<>>)

-----------------------------------------------------------------------------
(* The helpers of post_affiliated_issue. *)

\* the weeks of the table are dropped
AddDelta_days_only(bd, d) == Datetime(bd.day + d.days, bd.hour)

\* basedate + timedelta of the table d
AddDelta(bd, d) == Datetime(bd.day + d.days + 7 * d.weeks, bd.hour)

RECURSIVE ConvertFrom(_, _, _, _)
ConvertFrom(d, n, bd, t) ==
    IF n > Len(date_keys) THEN Ok(d)
    ELSE LET k == date_keys[n] IN
         IF k \notin DOMAIN d \/ d[k].type = "datetime"
         THEN ConvertFrom(d, n + 1, bd, t)
         ELSE IF d[k].type = "dict"
         THEN IF bd.type = "datetime"
              THEN ConvertFrom(With(d, k, AddDelta(bd, d[k])), n + 1, bd, t)
              ELSE Fail(Raise("TypeError", "date", t, "basedate", k, <<>>))
         ELSE Fail(Raise("ValueError", "date", t, "must be datetime or dict", k, <<>>))

convert_date_by_delta(d, bd, t) == ConvertFrom(d, 1, bd, t)

RECURSIVE ReplaceFrom(_, _, _, _, _)
ReplaceFrom(d, n, kwargs, t, replaced) ==
    IF n > Len(KeyOrder) THEN Ok(replaced)
    ELSE LET k == KeyOrder[n] IN
         IF k \notin DOMAIN d THEN ReplaceFrom(d, n + 1, kwargs, t, replaced)
         ELSE IF d[k].type = "datetime"
         THEN ReplaceFrom(d, n + 1, kwargs, t, With(replaced, k, d[k]))
         ELSE IF d[k].type = "str"
         THEN LET f == Format(d[k].s, kwargs) IN
              IF f.ok
              THEN ReplaceFrom(d, n + 1, kwargs, t, With(replaced, k, Str(f.val)))
              ELSE Fail(Raise(f.kind, "subst", t, "format", k, f.key))
         ELSE Fail(Raise("AttributeError", "subst", t, "format", k, <<>>))

\* every value is formatted, the datetimes too
RECURSIVE FormatAllFrom(_, _, _, _, _)
FormatAllFrom(d, n, kwargs, t, replaced) ==
    IF n > Len(KeyOrder) THEN Ok(replaced)
    ELSE LET k == KeyOrder[n] IN
         IF k \notin DOMAIN d THEN FormatAllFrom(d, n + 1, kwargs, t, replaced)
         ELSE IF d[k].type = "str"
         THEN LET f == Format(d[k].s, kwargs) IN
              IF f.ok
              THEN FormatAllFrom(d, n + 1, kwargs, t, With(replaced, k, Str(f.val)))
              ELSE Fail(Raise(f.kind, "subst", t, "format", k, f.key))
         ELSE Fail(Raise("AttributeError", "subst", t, "format", k, <<>>))

replace_curly_braces_all(d, kwargs, t) == FormatAllFrom(d, 1, kwargs, t, <<>>)

\* only strings are formatted: any other value is kept as it is
RECURSIVE FormatStringsFrom(_, _, _, _, _)
FormatStringsFrom(d, n, kwargs, t, replaced) ==
    IF n > Len(KeyOrder) THEN Ok(replaced)
    ELSE LET k == KeyOrder[n] IN
         IF k \notin DOMAIN d THEN FormatStringsFrom(d, n + 1, kwargs, t, replaced)
         ELSE IF d[k].type = "str"
         THEN LET f == Format(d[k].s, kwargs) IN
              IF f.ok
              THEN FormatStringsFrom(d, n + 1, kwargs, t, With(replaced, k, Str(f.val)))
              ELSE Fail(Raise(f.kind, "subst", t, "format", k, f.key))
         ELSE FormatStringsFrom(d, n + 1, kwargs, t, With(replaced, k, d[k]))

replace_curly_braces_strings(d, kwargs, t) == FormatStringsFrom(d, 1, kwargs, t, <<>>)

replace_curly_braces(d, kwargs, t) == ReplaceFrom(d, 1, kwargs, t, <<>>)

\* milestone looked up among the users
Attr_milestone_users(k) ==
    CASE k = "priority" -> priorities
      [] k = "issueType" -> pj_issue_types
      [] k = "version" -> pj_versions
      [] k = "milestone" -> pj_users
      [] k = "assignee" -> pj_users

\* getattr(self, v) for the v of substituted_keys
Attr(k) ==
    CASE k = "priority" -> priorities
      [] k = "issueType" -> pj_issue_types
      [] k = "version" -> pj_versions
      [] k = "milestone" -> pj_versions
      [] k = "assignee" -> pj_users

\* issue[k] in getattr(self, v)
IsName(v, m) == v.type = "str" /\ v.s \in DOMAIN m

RECURSIVE ValidateNames(_, _, _)
ValidateNames(issue, n, t) ==
    IF n > Len(substituted_keys) THEN Ok(issue)
    ELSE LET k == substituted_keys[n] IN
         IF k \notin DOMAIN issue \/ IsName(issue[k], Attr(k))
         THEN ValidateNames(issue, n + 1, t)
         ELSE Fail(Raise("AssertionError", "validate", t, "is not a valid key", k,
                         IF issue[k].type = "str" THEN issue[k].s ELSE <<>>))

RECURSIVE ValidateMandatory(_, _, _)
ValidateMandatory(issue, n, t) ==
    IF n > Len(mandatory_keys) THEN ValidateNames(issue, 1, t)
    ELSE IF mandatory_keys[n] \in DOMAIN issue
    THEN ValidateMandatory(issue, n + 1, t)
    ELSE Fail(Raise("AssertionError", "validate", t, "missing a mandatory key",
                    mandatory_keys[n], <<>>))

\* the names are looked up before the mandatory keys are asked for
validate_issue_names_first(issue, t) ==
    LET r == ValidateNames(issue, 1, t) IN
    IF r.ok THEN ValidateMandatory(issue, 1, t) ELSE r

\* the names are not looked up
validate_issue_mandatory_only(issue, t) ==
    IF \A n \in 1..Len(mandatory_keys) : mandatory_keys[n] \in DOMAIN issue
    THEN Ok(issue)
    ELSE ValidateMandatory(issue, 1, t)

validate_issue(issue, t) == ValidateMandatory(issue, 1, t)

\* datetime.strftime("%Y-%m-%d"): the day as text, the time of day dropped
Strftime(dt) == [type |-> "ymd", day |-> dt.day]

\* issue.get(k)
Field(issue, k) == IF k \in DOMAIN issue THEN issue[k] ELSE None

\* mapping.get(issue.get(k))
Lookup(m, v) == IF v.type = "str" /\ v.s \in DOMAIN m THEN IntV(m[v.s]) ELSE None

DataKeys ==
    {"projectId", "summary", "issueTypeId", "priorityId", "parentIssueId",
     "description", "dueDate", "versionId[]", "milestoneId[]", "assigneeId"}

\* the data dictionary of post_issue; requests leaves out the keys whose value
\* is None when it encodes the body
PostData(issue) ==
    LET full == [k \in DataKeys |->
            CASE k = "projectId" -> IntV(project_id)
              [] k = "summary" -> issue["summary"]
              [] k = "issueTypeId" -> IntV(pj_issue_types[issue["issueType"].s])
              [] k = "priorityId" -> IntV(priorities[issue["priority"].s])
              [] k = "parentIssueId" -> Field(issue, "parentIssueId")
              [] k = "description" -> Field(issue, "description")
              [] k = "dueDate" ->
                    IF "dueDate" \in DOMAIN issue
                    THEN Strftime(issue["dueDate"]) ELSE None
              [] k = "versionId[]" -> Lookup(pj_versions, Field(issue, "version"))
              [] k = "milestoneId[]" -> Lookup(pj_versions, Field(issue, "milestone"))
              [] k = "assigneeId" -> Lookup(pj_users, Field(issue, "assignee"))]
    IN [k \in {x \in DataKeys : full[x] # None} |-> full[k]]

\* post_issue up to the request: the data, or the exception building it raises
post_issue(issue, t) ==
    IF "dueDate" \in DOMAIN issue /\ issue["dueDate"].type # "datetime"
    THEN Fail(Raise("AttributeError", "post", t, "strftime", "dueDate", <<>>))
    ELSE IF "summary" \notin DOMAIN issue
    THEN Fail(Raise("KeyError", "post", t, "issue", "summary", <<>>))
    ELSE IF "issueType" \notin DOMAIN issue
    THEN Fail(Raise("KeyError", "post", t, "issue", "issueType", <<>>))
    ELSE IF ~IsName(issue["issueType"], pj_issue_types)
    THEN Fail(Raise("KeyError", "post", t, "pj_issue_types", "issueType", <<>>))
    ELSE IF "priority" \notin DOMAIN issue
    THEN Fail(Raise("KeyError", "post", t, "issue", "priority", <<>>))
    ELSE IF ~IsName(issue["priority"], priorities)
    THEN Fail(Raise("KeyError", "post", t, "priorities", "priority", <<>>))
    ELSE Ok(PostData(issue))

\* only the server errors raise
raise_for_status_5xx(st) == 500 <= st /\ st < 600

\* Response.raise_for_status raises on the 4xx and 5xx statuses
raise_for_status(st) == 400 <= st /\ st < 600

\* str.lower on the characters typed at the prompt
Lower(s) == [n \in 1..Len(s) |-> IF s[n] = "Y" THEN "y" ELSE s[n]]

\* any answer that starts with y is taken for a yes
is_yes_prefix(typed) == typed # <<>> /\ Lower(typed)[1] = "y"

\* is_yes, on what the user typed
is_yes(typed) == Lower(typed) = <<"y">>

\* only the first element is evaluated: the others are taken as they come
Comprehension_first_only(rs) ==
    IF rs = <<>> \/ rs[1].ok
    THEN Ok([k \in 1..Len(rs) |-> IF rs[k].ok THEN rs[k].val ELSE <<>>])
    ELSE Fail(rs[1].err)

\* the first exception of a list comprehension over the children, or its value
Comprehension(rs) ==
    IF \A k \in 1..Len(rs) : rs[k].ok
    THEN Ok([k \in 1..Len(rs) |-> rs[k].val])
    ELSE LET first == CHOOSE k \in 1..Len(rs) :
                          ~rs[k].ok /\ \A m \in 1..(k - 1) : rs[m].ok
         IN Fail(rs[first].err)

-----------------------------------------------------------------------------
(* The remote service: what its GET endpoints return, and its statuses. *)

ServerProjects == (<<"PRJ">> :> 7)

ServerPriorities == (<<"High">> :> 2) @@ (<<"Normal">> :> 3)

ServerIssueTypes == (<<"Task">> :> 11) @@ (<<"Bug">> :> 12)

ServerVersions == (<<"v1">> :> 21) @@ (<<"v2">> :> 22)

ServerUsers == (<<"bob">> :> 31)

\* the statuses a GET is answered with
GetStatuses == {200, 401, 404, 500}

\* the statuses the POST of an issue is answered with
PostStatuses == {201, 400, 500}

-----------------------------------------------------------------------------
(* The inputs: the template, the stored credential, the typed answer. *)

Base ==
    [summary |-> Str(<<"Design">>), issueType |-> Str(<<"Task">>),
     priority |-> Str(<<"Normal">>)]

Tickets ==
    { Base,
      \* placeholders and a relative date
      [summary |-> Str(<<"Sprint ", "{", "n", "}">>),
       issueType |-> Str(<<"{", "t", "}">>), priority |-> Str(<<"Normal">>),
       dueDate |-> Delta(5, 1)],
      \* every optional field, a literal date
      [summary |-> Str(<<"Design">>), issueType |-> Str(<<"Bug">>),
       priority |-> Str(<<"High">>), description |-> Str(<<"text">>),
       dueDate |-> Datetime(10, 9), version |-> Str(<<"v1">>),
       milestone |-> Str(<<"v2">>), assignee |-> Str(<<"bob">>)],
      \* a placeholder config.repl never defines
      With(Base, "summary", Str(<<"{", "m", "}", " of ", "{", "n", "}">>)),
      \* doubled braces, a single brace, an empty field
      With(Base, "summary", Str(<<"{", "{", "a", "}", "}">>)),
      With(Base, "description", Str(<<"a", "}">>)),
      With(Base, "description", Str(<<"{", "}">>)),
      \* mandatory keys missing
      Without(Base, "priority"),
      Without(Without(Base, "summary"), "issueType"),
      With(Without(Base, "priority"), "summary", Str(<<"{", "m", "}">>)),
      With(Without(Base, "issueType"), "dueDate", Delta(1, 0)),
      \* names the project does not have
      With(Base, "assignee", Str(<<"eve">>)),
      With(With(Base, "priority", Str(<<"Urgent">>)), "version", Str(<<"v9">>)),
      With(Without(Base, "summary"), "issueType", Str(<<"Epic">>)),
      With(Base, "milestone", Str(<<"bob">>)),
      \* a due date that is neither a datetime nor a table
      With(Base, "dueDate", Str(<<"tomorrow">>)) }

\* the children: a child may carry a children key of its own
ChildTickets ==
    { Base,
      [summary |-> Str(<<"Sprint ", "{", "n", "}">>),
       issueType |-> Str(<<"{", "t", "}">>), priority |-> Str(<<"Normal">>),
       dueDate |-> Delta(5, 1)],
      [summary |-> Str(<<"Design">>), issueType |-> Str(<<"Bug">>),
       priority |-> Str(<<"High">>), description |-> Str(<<"text">>),
       dueDate |-> Datetime(10, 9), version |-> Str(<<"v1">>),
       milestone |-> Str(<<"v2">>), assignee |-> Str(<<"bob">>)],
      With(Base, "summary", Str(<<"{", "m", "}">>)),
      Without(Base, "priority"),
      With(Base, "assignee", Str(<<"eve">>)),
      With(Base, "dueDate", Str(<<"tomorrow">>)),
      With(Base, "children", [type |-> "list"]) }

RECURSIVE ListsUpTo(_, _)
ListsUpTo(S, n) ==
    IF n = 0 THEN {<<>>}
    ELSE LET shorter == ListsUpTo(S, n - 1)
         IN shorter \cup {Append(l, x) : l \in {m \in shorter : Len(m) = n - 1}, x \in S}

ChildLists == ListsUpTo(ChildTickets, MaxChildren)

ProjectKeys == {<<"PRJ">>, <<"ZZZ">>}

Basedates == {None, Datetime(20, 8)}

Repls == {<<>>, (<<"n">> :> <<"3">>) @@ (<<"t">> :> <<"Task">>)}

Answers == {<<"y">>, <<"Y">>, <<"n">>, <<>>, <<"y", "e", "s">>}

\* what the credential store holds at the start: nothing, an empty key, a key
Keyrings == {None, Str(<<>>), Str(<<"key">>)}

\* what the user may type at the API_KEY prompt
Getpass == {Str(<<>>), Str(<<"key">>), Str(<<"new">>)}

\* the commands of the program that are modelled, by the pc they start at
Commands == {"start", "init"}

-----------------------------------------------------------------------------
(* The state machine. *)

NoRequest == [issue |-> <<>>, data |-> <<>>]

\* a record of logger.info: which message, the issue key it names, and for a
\* child the key of the parent it names
Info(msg, key, of) == [msg |-> msg, issueKey |-> key, of |-> of]

tmpl == <<project_key, basedate, repl, issues>>

cache == <<api_key, project_id, priorities, pj_issue_types, pj_versions, pj_users>>

group == <<parent0, parent, children0, children, j, parentIssueId>>

net == <<gets, posts, request, log>>

Init ==
    /\ pc \in Commands
    /\ keyring \in Keyrings
    /\ new_api_key = None
    /\ project_key = <<>>
    /\ basedate = None
    /\ repl = <<>>
    /\ issues = <<>>
    /\ answer = <<>>
    /\ api_key = None
    /\ project_id = 0
    /\ priorities = <<>>
    /\ pj_issue_types = <<>>
    /\ pj_versions = <<>>
    /\ pj_users = <<>>
    /\ i = 0
    /\ parent0 = <<>>
    /\ parent = <<>>
    /\ children0 = <<>>
    /\ children = <<>>
    /\ j = 0
    /\ parentIssueId = None
    /\ gets = <<>>
    /\ posts = <<>>
    /\ request = NoRequest
    /\ log = <<>>
    /\ error = NoError

\* an exception nothing catches ends the run
Abort(e) == pc' = "failed" /\ error' = e

\* toml.load and prepost_check: the target and the config are read and printed
LoadTemplate ==
    /\ pc = "start"
    /\ project_key' \in ProjectKeys
    /\ basedate' \in Basedates
    /\ repl' \in Repls
    /\ issues' = <<>>
    /\ pc' = "confirm"
    /\ UNCHANGED <<keyring, new_api_key, answer, cache, i, group, net, error>>

\* if is_yes("Do you want to proceed?") ... else: logger.info("Terminated ...")
Confirm ==
    /\ pc = "confirm"
    /\ \E typed \in Answers :
          /\ answer' = typed
          /\ pc' = IF is_yes(typed) THEN "get_password" ELSE "terminated"
          /\ log' = IF is_yes(typed) THEN log ELSE Append(log, Info("Terminated", None, None))
    /\ UNCHANGED <<keyring, new_api_key, tmpl, cache, i, group, gets, posts, request, error>>

\* the assertion lets any stored value through
assert_api_key_always(key) == TRUE

\* assert api_key, "... is not stored yet. Use 'init' command to register.":
\* None and the empty string are false
assert_api_key(key) == key \notin {None, Str(<<>>)}

\* BacklogSpace.__init__: the stored API key is read and asserted; back in
\* BacklogProject.__init__, the fetch is announced
GetPassword ==
    /\ pc = "get_password"
    /\ IF ~assert_api_key(keyring)
       THEN /\ Abort(Raise("AssertionError", "credential", 0, "is not stored yet",
                            "api_key", <<>>))
            /\ UNCHANGED <<api_key, log>>
       ELSE /\ api_key' = keyring
            /\ log' = Append(log, Info("Fetching", None, None))
            /\ pc' = "get_projects"
            /\ UNCHANGED error
    /\ UNCHANGED <<keyring, new_api_key, tmpl, answer, project_id, priorities, pj_issue_types,
                   pj_versions, pj_users, i, group, gets, posts, request>>

SpaceGet(prop) == [scope |-> "space", project |-> 0, prop |-> prop]

\* the project-scoped GET is sent before the project id is known
ProjectGet_unresolved(prop) == [scope |-> "project", project |-> 0, prop |-> prop]

ProjectGet(prop) == [scope |-> "project", project |-> project_id, prop |-> prop]

\* self.project_id = index(self.get_prop("projects"), key="projectKey")[project_key]
GetProjects ==
    /\ pc = "get_projects"
    /\ gets' = Append(gets, SpaceGet("projects"))
    /\ \E st \in GetStatuses :
          IF raise_for_status(st)
          THEN /\ Abort(Raise("HTTPError", "get", 0, "projects", "", <<>>))
               /\ UNCHANGED project_id
          ELSE IF project_key \notin DOMAIN ServerProjects
          THEN /\ Abort(Raise("KeyError", "get", 0, "projects", "", project_key))
               /\ UNCHANGED project_id
          ELSE /\ project_id' = ServerProjects[project_key]
               /\ pc' = "get_priorities"
               /\ UNCHANGED error
    /\ UNCHANGED <<keyring, new_api_key, tmpl, answer, api_key, priorities, pj_issue_types,
                   pj_versions, pj_users, i, group, posts, request, log>>

\* self.priorities = index(self.get_prop("priorities"))
GetPriorities ==
    /\ pc = "get_priorities"
    /\ gets' = Append(gets, SpaceGet("priorities"))
    /\ \E st \in GetStatuses :
          IF raise_for_status(st)
          THEN /\ Abort(Raise("HTTPError", "get", 0, "priorities", "", <<>>))
               /\ UNCHANGED priorities
          ELSE /\ priorities' = ServerPriorities
               /\ pc' = "get_issueTypes"
               /\ UNCHANGED error
    /\ UNCHANGED <<keyring, new_api_key, tmpl, answer, api_key, project_id, pj_issue_types,
                   pj_versions, pj_users, i, group, posts, request, log>>

\* self.pj_issue_types = index(self.get_pj_prop("issueTypes"))
GetIssueTypes ==
    /\ pc = "get_issueTypes"
    /\ gets' = Append(gets, ProjectGet("issueTypes"))
    /\ \E st \in GetStatuses :
          IF raise_for_status(st)
          THEN /\ Abort(Raise("HTTPError", "get", 0, "issueTypes", "", <<>>))
               /\ UNCHANGED pj_issue_types
          ELSE /\ pj_issue_types' = ServerIssueTypes
               /\ pc' = "get_versions"
               /\ UNCHANGED error
    /\ UNCHANGED <<keyring, new_api_key, tmpl, answer, api_key, project_id, priorities,
                   pj_versions, pj_users, i, group, posts, request, log>>

\* self.pj_versions = index(self.get_pj_prop("versions"))
GetVersions ==
    /\ pc = "get_versions"
    /\ gets' = Append(gets, ProjectGet("versions"))
    /\ \E st \in GetStatuses :
          IF raise_for_status(st)
          THEN /\ Abort(Raise("HTTPError", "get", 0, "versions", "", <<>>))
               /\ UNCHANGED pj_versions
          ELSE /\ pj_versions' = ServerVersions
               /\ pc' = "get_users"
               /\ UNCHANGED error
    /\ UNCHANGED <<keyring, new_api_key, tmpl, answer, api_key, project_id, priorities,
                   pj_issue_types, pj_users, i, group, posts, request, log>>

\* self.pj_users = index(self.get_pj_prop("users"))
GetUsers ==
    /\ pc = "get_users"
    /\ gets' = Append(gets, ProjectGet("users"))
    /\ \E st \in GetStatuses :
          IF raise_for_status(st)
          THEN /\ Abort(Raise("HTTPError", "get", 0, "users", "", <<>>))
               /\ UNCHANGED pj_users
          ELSE /\ pj_users' = ServerUsers
               /\ pc' = "loop"
               /\ UNCHANGED error
    /\ UNCHANGED <<keyring, new_api_key, tmpl, answer, api_key, project_id, priorities,
                   pj_issue_types, pj_versions, i, group, posts, request, log>>

\* the issueKey the service answers beside the id
IssueKey(id) == [type |-> "issueKey", project |-> project_key, n |-> id.n]

\* what one POST leaves in the log: the entry and ticket it was for (ticket 0
\* the parent, k the k-th child), the parentIssueId sent, the status and the id
\* the service answered
Posted(t, data, st, id) ==
    [entry |-> i, ticket |-> t,
     parentIssueId |-> Field(data, "parentIssueId"), status |-> st, id |-> id,
     issueKey |-> IF id = None THEN None ELSE IssueKey(id)]

\* the id the service gives the issue a POST creates: one no issue has yet
NewId == IntV(100 + Len(posts))

\* parentIssueId = r["id"]
response_id(id) == id

\* the update of line 133 left out
child_update_skipped(child, id) == child

\* child.update({"parentIssueId": parentIssueId})
child_update(child, id) == With(child, "parentIssueId", id)

\* for a_issue in affiliated_issues["issues"]: the list yields another entry
\* (what the template wrote there is drawn when the loop reaches it), whose
\* children are popped off the parent
BeginAffiliatedIssue ==
    /\ pc = "loop"
    /\ i < MaxEntries
    /\ i' = i + 1
    /\ \E a_issue \in Tickets :
          /\ parent0' = a_issue
          /\ parent' = a_issue
    /\ pc' = "p_date"
    /\ UNCHANGED <<keyring, new_api_key, tmpl, answer, cache, children0, children, j,
                   parentIssueId, net, error>>

\* parent = convert_date_by_delta(parent)
ParentConvertDate ==
    /\ pc = "p_date"
    /\ LET r == convert_date_by_delta(parent, basedate, 0) IN
          IF r.ok
          THEN parent' = r.val /\ pc' = "p_subst" /\ UNCHANGED error
          ELSE Abort(r.err) /\ UNCHANGED parent
    /\ UNCHANGED <<keyring, new_api_key, tmpl, answer, cache, i, parent0, children0, children,
                   j, parentIssueId, net>>

\* parent = replace_curly_braces(parent)
ParentReplace ==
    /\ pc = "p_subst"
    /\ LET r == replace_curly_braces(parent, repl, 0) IN
          IF r.ok
          THEN parent' = r.val /\ pc' = "p_validate" /\ UNCHANGED error
          ELSE Abort(r.err) /\ UNCHANGED parent
    /\ UNCHANGED <<keyring, new_api_key, tmpl, answer, cache, i, parent0, children0, children,
                   j, parentIssueId, net>>

\* self.__validate_issue(parent)
ParentValidate ==
    /\ pc = "p_validate"
    /\ LET r == validate_issue(parent, 0) IN
          IF r.ok
          THEN pc' = "p_post" /\ UNCHANGED error
          ELSE Abort(r.err)
    /\ UNCHANGED <<keyring, new_api_key, tmpl, answer, cache, i, group, net>>

\* r = self.post_issue(parent).json()
ParentPost ==
    /\ pc = "p_post"
    /\ LET d == post_issue(parent, 0) IN
          IF ~d.ok
          THEN Abort(d.err) /\ UNCHANGED <<parentIssueId, posts, request>>
          ELSE /\ request' = [issue |-> parent, data |-> d.val]
               /\ \E st \in PostStatuses :
                     IF raise_for_status(st)
                     THEN /\ posts' = Append(posts, Posted(0, d.val, st, None))
                          /\ Abort(Raise("HTTPError", "post", 0, "issues", "", <<>>))
                          /\ UNCHANGED parentIssueId
                     ELSE /\ posts' = Append(posts, Posted(0, d.val, st, NewId))
                          /\ parentIssueId' = response_id(NewId)
                          /\ pc' = "p_posted"
                          /\ UNCHANGED error
    /\ UNCHANGED <<keyring, new_api_key, tmpl, answer, cache, i, parent0, parent, children0,
                   children, j, gets, log>>

\* r, the answer to the parent POST of the entry at hand
ParentResponse ==
    posts[CHOOSE k \in 1..Len(posts) : posts[k].entry = i /\ posts[k].ticket = 0]

\* "Posted '{} {}'".format(r["issueKey"], parent["summary"])
posted_message(r_) == Info("Posted", r_.issueKey, None)

\* the child message names the child where it should name the parent
posted_child_message_swapped(r_, rc) == Info("Posted child", rc.issueKey, rc.issueKey)

\* "Posted (child issue of {}) '{} {}'".format(r["issueKey"], rc["issueKey"], ...)
posted_child_message(r_, rc) == Info("Posted child", rc.issueKey, r_.issueKey)

\* logger.info("Posted ..."): the last read of parent, and of the request
ParentLogged ==
    /\ pc = "p_posted"
    /\ log' = Append(log, posted_message(ParentResponse))
    /\ parent0' = <<>>
    /\ parent' = <<>>
    /\ request' = NoRequest
    /\ pc' = "c_date"
    /\ UNCHANGED <<keyring, new_api_key, tmpl, answer, cache, i, children0, children, j,
                   parentIssueId, gets, posts, error>>

\* children = [convert_date_by_delta(child) for child in children]
\* (nothing reads the popped children before this line: what the template
\* wrote there is drawn here)
ChildrenConvertDate ==
    /\ pc = "c_date"
    /\ \E cs \in ChildLists :
          /\ children0' = cs
          /\ issues' = Append(issues, Len(cs))
          /\ LET r == Comprehension(
                      [k \in 1..Len(cs) |-> convert_date_by_delta(cs[k], basedate, k)])
             IN IF r.ok
                THEN children' = r.val /\ pc' = "c_subst" /\ UNCHANGED error
                ELSE Abort(r.err) /\ UNCHANGED children
    /\ UNCHANGED <<keyring, new_api_key, project_key, basedate, repl, answer, cache, i, parent0,
                   parent, j, parentIssueId, net>>

\* children = [replace_curly_braces(child) for child in children]
ChildrenReplace ==
    /\ pc = "c_subst"
    /\ LET r == Comprehension(
                [k \in 1..Len(children) |-> replace_curly_braces(children[k], repl, k)])
       IN IF r.ok
          THEN children' = r.val /\ pc' = "c_validate" /\ UNCHANGED error
          ELSE Abort(r.err) /\ UNCHANGED children
    /\ UNCHANGED <<keyring, new_api_key, tmpl, answer, cache, i, parent0, parent, children0, j,
                   parentIssueId, net>>

\* [self.__validate_issue(child) for child in children]
ChildrenValidate ==
    /\ pc = "c_validate"
    /\ LET r == Comprehension(
                [k \in 1..Len(children) |-> validate_issue(children[k], k)])
       IN IF r.ok
          THEN pc' = "c_post" /\ UNCHANGED error
          ELSE Abort(r.err)
    /\ UNCHANGED <<keyring, new_api_key, tmpl, answer, cache, i, group, net>>

\* the loop ends one element before the end of the list
exhausted_one_short(k, list) == k >= Len(list) - 1

\* for ... in list: after k elements, the list has no more
exhausted(k, list) == k = Len(list)

\* for child in children: child.update(...); rc = self.post_issue(child).json()
ChildPost ==
    /\ pc = "c_post"
    /\ ~exhausted(j, children)
    /\ LET child == child_update(children[j + 1], parentIssueId)
           d == post_issue(child, j + 1)
       IN /\ children' = [children EXCEPT ![j + 1] = child]
          /\ IF ~d.ok
             THEN Abort(d.err) /\ UNCHANGED <<j, posts, request, log>>
             ELSE /\ request' = [issue |-> child, data |-> d.val]
                  /\ \E st \in PostStatuses :
                        IF raise_for_status(st)
                        THEN /\ posts' = Append(posts, Posted(j + 1, d.val, st, None))
                             /\ Abort(Raise("HTTPError", "post", j + 1, "issues", "",
                                             <<>>))
                             /\ UNCHANGED <<j, log>>
                        ELSE /\ posts' = Append(posts, Posted(j + 1, d.val, st, NewId))
                             /\ log' = Append(log, posted_child_message(
                                            ParentResponse,
                                            Posted(j + 1, d.val, st, NewId)))
                             /\ j' = j + 1
                             /\ UNCHANGED <<pc, error>>
    /\ UNCHANGED <<keyring, new_api_key, tmpl, answer, cache, i, parent0, parent, children0,
                   parentIssueId, gets>>

\* post_affiliated_issue returns: its locals are gone
EndAffiliatedIssue ==
    /\ pc = "c_post"
    /\ exhausted(j, children)
    /\ pc' = "loop"
    /\ parent0' = <<>>
    /\ parent' = <<>>
    /\ children0' = <<>>
    /\ children' = <<>>
    /\ j' = 0
    /\ parentIssueId' = None
    /\ request' = NoRequest
    /\ UNCHANGED <<keyring, new_api_key, tmpl, answer, cache, i, gets, posts, log, error>>

\* the list of entries is exhausted: the command returns
Finish ==
    /\ pc = "loop"
    /\ pc' = "done"
    /\ UNCHANGED <<keyring, new_api_key, tmpl, answer, cache, i, group, net, error>>

\* the override enters the new key only after the old one is deleted
init_override_delete_first == <<"init_delete", "init_getpass", "init_set">>

\* the statements of the override branch of init, in order: getpass,
\* delete_password, set_password
init_override == <<"init_getpass", "init_delete", "init_set">>

\* the statement that follows p in the override branch
AfterOverride(p) ==
    LET k == CHOOSE n \in 1..Len(init_override) : init_override[n] = p
    IN IF k = Len(init_override) THEN "init_done" ELSE init_override[k + 1]

\* init: if get_password(...) is None: ... elif is_yes(...): ...
InitGetPassword ==
    /\ pc = "init"
    /\ pc' = IF keyring = None THEN "init_new" ELSE "init_confirm"
    /\ UNCHANGED <<keyring, new_api_key, tmpl, answer, cache, i, group, net, error>>

\* elif is_yes("Do you want to override an exsiting API_KEY?"): when not, init
\* returns
InitConfirm ==
    /\ pc = "init_confirm"
    /\ \E typed \in Answers :
          /\ answer' = typed
          /\ pc' = IF is_yes(typed) THEN init_override[1] ELSE "init_done"
    /\ UNCHANGED <<keyring, new_api_key, tmpl, cache, i, group, net, error>>

\* getpass(prompt="API_KEY: "): the user types a key, or ends the input
\* (EOFError, KeyboardInterrupt)
InitGetpass ==
    /\ pc \in {"init_new", "init_getpass"}
    /\ \/ \E typed \in Getpass :
             /\ new_api_key' = typed
             /\ pc' = IF pc = "init_new" THEN "init_set" ELSE AfterOverride(pc)
             /\ UNCHANGED error
       \/ /\ Abort(Raise("EOFError", "getpass", 0, "API_KEY", "", <<>>))
          /\ UNCHANGED new_api_key
    /\ UNCHANGED <<keyring, tmpl, answer, cache, i, group, net>>

\* delete_password(SERVICE_NAME, space_domain)
InitDeletePassword ==
    /\ pc = "init_delete"
    /\ keyring' = None
    /\ pc' = AfterOverride(pc)
    /\ UNCHANGED <<new_api_key, tmpl, answer, cache, i, group, net, error>>

\* set_password(SERVICE_NAME, space_domain, api_key), in either branch
InitSetPassword ==
    /\ pc = "init_set"
    /\ keyring' = new_api_key
    /\ pc' = IF is_yes(answer) THEN AfterOverride(pc) ELSE "init_done"
    /\ UNCHANGED <<new_api_key, tmpl, answer, cache, i, group, net, error>>

Next ==
    \/ InitGetPassword
    \/ InitConfirm
    \/ InitGetpass
    \/ InitDeletePassword
    \/ InitSetPassword
    \/ LoadTemplate
    \/ Confirm
    \/ GetPassword
    \/ GetProjects
    \/ GetPriorities
    \/ GetIssueTypes
    \/ GetVersions
    \/ GetUsers
    \/ BeginAffiliatedIssue
    \/ ParentConvertDate
    \/ ParentReplace
    \/ ParentValidate
    \/ ParentPost
    \/ ParentLogged
    \/ ChildrenConvertDate
    \/ ChildrenReplace
    \/ ChildrenValidate
    \/ ChildPost
    \/ EndAffiliatedIssue
    \/ Finish

Spec == Init /\ [][Next]_vars

-----------------------------------------------------------------------------
(* The claims. *)

Range(s) == {s[n] : n \in 1..Len(s)}

\* the positions in the log of the parent POSTs of entry e
ParentPosts(e) == {k \in 1..Len(posts) : posts[k].entry = e /\ posts[k].ticket = 0}

\* the call of post_affiliated_issue for entry e has returned
Returned(e) == e < i \/ (e = i /\ pc \in {"loop", "done"})

\* C1: before any child POST of an entry, exactly one parent POST of that entry
\* was issued and answered with success, and the child POST carries the id that
\* parent POST returned as its parentIssueId; no entry has two parent POSTs, and
\* a call that returned issued exactly one.
C1_ParentBeforeChildren ==
    /\ \A k \in 1..Len(posts) :
          posts[k].ticket > 0 =>
             \E p \in 1..(k - 1) :
                /\ ParentPosts(posts[k].entry) = {p}
                /\ posts[p].id # None
                /\ posts[k].parentIssueId = posts[p].id
    /\ \A e \in 1..i :
          /\ Cardinality(ParentPosts(e)) <= 1
          /\ Returned(e) => Cardinality(ParentPosts(e)) = 1
    /\ \A k, m \in 1..Len(posts) :
          (k # m /\ posts[k].id # None) => posts[k].id # posts[m].id

\* a second entry whose child was POSTed under its own parent, after a first
\* entry that had a child too
C1_Witness ==
    \E k, m \in 1..Len(posts) :
       /\ posts[k].entry = 1 /\ posts[k].ticket = 1
       /\ posts[m].entry = 2 /\ posts[m].ticket = 1
       /\ posts[m].id # None
       /\ posts[m].parentIssueId # posts[k].parentIssueId

ResolveStages == {"date", "subst", "validate"}

\* C2: when date resolution, substitution or validation of a ticket of the
\* entry fails, parent or child, no POST of that entry has been issued.
C2_NoPartialSubmission ==
    (pc = "failed" /\ error.stage \in ResolveStages) =>
       \A k \in 1..Len(posts) : posts[k].entry # i

InitRun ==
    \/ pc \in {"init", "init_new", "init_confirm", "init_getpass", "init_delete",
               "init_set", "init_done"}
    \/ pc = "failed" /\ error.stage = "getpass"

\* C4: nothing is read from the credential store and no request is issued
\* before the prompt is answered, and after any answer but y or Y the run
\* issues no request at all (post ends as terminated; init issues none
\* whatever the answer).
C4_ConfirmFirst ==
    /\ pc \in {"start", "confirm"} =>
          gets = <<>> /\ posts = <<>> /\ api_key = None
    /\ (pc \notin {"start", "confirm"} /\ answer \notin {<<"y">>, <<"Y">>}) =>
          /\ pc = "terminated" \/ InitRun
          /\ gets = <<>> /\ posts = <<>> /\ api_key = None
    /\ InitRun => gets = <<>> /\ posts = <<>> /\ api_key = None

C4_Witness == pc = "terminated" /\ answer = <<"y", "e", "s">> /\ keyring # None

\* C5: the issue of every POST has summary, issueType and priority, and each
\* of its issueType, priority, version, milestone and assignee is a name of
\* the mapping it is looked up in.
C5_PostedIsValid ==
    request # NoRequest =>
       /\ {"summary", "issueType", "priority"} \subseteq DOMAIN request.issue
       /\ request.issue["issueType"].s \in DOMAIN pj_issue_types
       /\ request.issue["priority"].s \in DOMAIN priorities
       /\ "version" \in DOMAIN request.issue =>
             request.issue["version"].s \in DOMAIN pj_versions
       /\ "milestone" \in DOMAIN request.issue =>
             request.issue["milestone"].s \in DOMAIN pj_versions
       /\ "assignee" \in DOMAIN request.issue =>
             request.issue["assignee"].s \in DOMAIN pj_users

\* a POSTed child with a version, a milestone and an assignee
C5_Witness ==
    /\ request # NoRequest
    /\ {"version", "milestone", "assignee", "parentIssueId"} \subseteq DOMAIN request.issue
    /\ posts # <<>>
    /\ posts[Len(posts)].ticket = 1

\* the ticket the template wrote, and the ticket as the program holds it now
\* (ticket 0 the parent, k the k-th child)
Raw(t) == IF t = 0 THEN parent0 ELSE children0[t]

Cur(t) == IF t = 0 THEN parent ELSE children[t]

\* the tickets of the entry the program holds
Held == (IF parent0 # <<>> THEN {0} ELSE {}) \cup (1..Len(children0))

\* date resolution, substitution and validation of ticket t all succeeded
Succeeded(t) ==
    IF t = 0 THEN pc \in {"p_post", "p_posted"} ELSE pc = "c_post"

\* the run ended in step `stage` of ticket t
FailedAt(t, stage) == pc = "failed" /\ error.stage = stage /\ error.ticket = t

\* resolution of ticket t is over, one way or the other
Ended(t) == Succeeded(t) \/ \E stage \in ResolveStages : FailedAt(t, stage)

Missing(t) == {k \in {"summary", "issueType", "priority"} : k \notin DOMAIN t}

FirstMissing(t) ==
    IF "summary" \notin DOMAIN t THEN "summary"
    ELSE IF "issueType" \notin DOMAIN t THEN "issueType"
    ELSE "priority"

IsMissingFieldError(e) ==
    e.kind = "AssertionError" /\ e.msg = "missing a mandatory key"

\* C6 as claimed: every ticket that lacks a mandatory key ends resolution with
\* the missing-field error naming a key it lacks, whatever else it holds.
C6_Original ==
    \A t \in Held :
       (Missing(Raw(t)) # {} /\ Ended(t)) =>
          /\ IsMissingFieldError(error)
          /\ error.ticket = t
          /\ error.key \in Missing(Raw(t))

\* C6 as amended: validation never passes a ticket that lacks a mandatory
\* key, and whenever validation is what fails on such a ticket it is with the
\* missing-field error naming the first key it lacks, in the order summary,
\* issueType, priority.
C6_MissingField ==
    \A t \in Held :
       Missing(Raw(t)) # {} =>
          /\ ~Succeeded(t)
          /\ FailedAt(t, "validate") =>
                IsMissingFieldError(error) /\ error.key = FirstMissing(Raw(t))

\* validation named summary for a parent that lacks issueType too
C6_Witness ==
    /\ FailedAt(0, "validate")
    /\ IsMissingFieldError(error)
    /\ error.key = "summary"
    /\ Missing(parent0) = {"summary", "issueType"}

\* the mapping each looked-up field is checked against
RelevantMapping(k) ==
    CASE k = "priority" -> priorities
      [] k = "issueType" -> pj_issue_types
      [] k \in {"version", "milestone"} -> pj_versions
      [] k = "assignee" -> pj_users

LookedUp == {"priority", "issueType", "version", "milestone", "assignee"}

\* the looked-up fields of t whose name the relevant mapping does not have
Unknown(t) ==
    {k \in LookedUp \cap DOMAIN t :
        t[k].type = "str" /\ t[k].s \notin DOMAIN RelevantMapping(k)}

\* the same, for the names written without braces (substitution keeps them)
UnknownAsWritten(t) == {k \in Unknown(t) : Range(t[k].s) \cap {"{", "}"} = {}}

FirstUnknown(t) ==
    LET n == CHOOSE n \in 1..Len(substituted_keys) :
                 /\ substituted_keys[n] \in Unknown(t)
                 /\ \A m \in 1..(n - 1) : substituted_keys[m] \notin Unknown(t)
    IN substituted_keys[n]

IsUnknownReferenceError(e) ==
    e.kind = "AssertionError" /\ e.msg = "is not a valid key"

\* C7 as claimed: every ticket with a looked-up field whose name the mapping
\* lacks ends resolution with the unknown-reference error naming such a field
\* and its value.
C7_Original ==
    \A t \in Held :
       (UnknownAsWritten(Raw(t)) # {} /\ Ended(t)) =>
          /\ IsUnknownReferenceError(error)
          /\ error.ticket = t
          /\ error.key \in UnknownAsWritten(Raw(t))
          /\ error.value = Raw(t)[error.key].s

\* C7 as amended: validation never passes a ticket in which a looked-up field
\* holds, after substitution, a name its mapping lacks; and whenever validation
\* is run on such a ticket that has its three mandatory keys, it fails with the
\* unknown-reference error naming the first such field, in the order priority,
\* issueType, version, milestone, assignee, and the value it holds.
C7_UnknownReference ==
    \A t \in Held :
       /\ Succeeded(t) => Unknown(Cur(t)) = {}
       /\ (FailedAt(t, "validate") /\ Unknown(Cur(t)) # {} /\ Missing(Cur(t)) = {}) =>
             /\ IsUnknownReferenceError(error)
             /\ error.key = FirstUnknown(Cur(t))
             /\ error.value = Cur(t)[error.key].s

\* validation named priority and its value for a parent whose version is
\* unknown too
C7_Witness ==
    /\ FailedAt(0, "validate")
    /\ IsUnknownReferenceError(error)
    /\ error.key = "priority"
    /\ error.value = <<"Urgent">>
    /\ Unknown(parent) = {"priority", "version"}

\* what date resolution makes of the ticket raw: the ticket cur with the same
\* keys and values, but for a dueDate table, which becomes basedate plus its
\* days and weeks, at basedate's time of day
DateResolved(raw, cur) ==
    /\ DOMAIN cur = DOMAIN raw
    /\ \A k \in DOMAIN raw \ {"dueDate"} : cur[k] = raw[k]
    /\ "dueDate" \in DOMAIN raw =>
          \/ raw["dueDate"].type = "datetime" /\ cur["dueDate"] = raw["dueDate"]
          \/ /\ raw["dueDate"].type = "dict"
             /\ basedate # None
             /\ cur["dueDate"] =
                   [type |-> "datetime",
                    day |-> basedate.day + raw["dueDate"].days
                               + 7 * raw["dueDate"].weeks,
                    hour |-> basedate.hour]

\* C8: date resolution leaves a literal date as it is and turns a relative
\* offset into basedate + offset, changing nothing else of the ticket; it
\* fails, producing no date, when the offset has no base date to be added to
\* (and when dueDate is neither a date nor an offset).
C8_DateResolution ==
    /\ pc = "p_subst" => DateResolved(parent0, parent)
    /\ pc = "c_subst" =>
          /\ Len(children) = Len(children0)
          /\ \A k \in 1..Len(children0) : DateResolved(children0[k], children[k])
    /\ \A t \in Held :
          /\ ("dueDate" \in DOMAIN Raw(t) /\ Raw(t)["dueDate"].type = "dict"
                 /\ basedate = None)
                => (pc \notin {"p_subst", "c_subst"} /\ ~Succeeded(t))
          /\ FailedAt(t, "date") =>
                /\ "dueDate" \in DOMAIN Raw(t)
                /\ \/ /\ Raw(t)["dueDate"].type = "dict"
                      /\ basedate = None
                      /\ error.kind = "TypeError"
                   \/ /\ Raw(t)["dueDate"].type \notin {"dict", "datetime"}
                      /\ error.kind = "ValueError"

\* a parent's offset of 5 days and 1 week resolved against the base date
C8_Witness ==
    /\ pc = "p_subst"
    /\ "dueDate" \in DOMAIN parent0
    /\ parent0["dueDate"] = Delta(5, 1)
    /\ basedate = Datetime(20, 8)
    /\ parent["dueDate"] = Datetime(32, 8)

\* C9 as claimed, for the parent: substitution leaves a field in which no
\* opening brace occurs as it is, and when it fails it is with the error for a
\* placeholder config.repl has no key for.
C9_Original ==
    /\ pc = "p_validate" =>
          \A k \in DOMAIN parent0 :
             (parent0[k].type = "str" /\ "{" \notin Range(parent0[k].s)) =>
                parent[k] = parent0[k]
    /\ FailedAt(0, "subst") =>
          /\ error.kind = "KeyError"
          /\ "{" \in Range(parent0[error.key].s)

\* the ticket cur holds the final values of the ticket raw: its dueDate a
\* datetime, each of its strings the formatted string of raw
Final(raw, cur) ==
    /\ DOMAIN cur = DOMAIN raw
    /\ \A k \in DOMAIN raw :
          IF k = "dueDate"
          THEN /\ cur[k].type = "datetime"
               /\ raw[k].type = "datetime" => cur[k] = raw[k]
               /\ raw[k].type = "dict" =>
                     cur[k].day = basedate.day + raw[k].days + 7 * raw[k].weeks
          ELSE /\ cur[k].type = "str"
               /\ Format(raw[k].s, repl).ok
               /\ cur[k].s = Format(raw[k].s, repl).val

\* the latest POST was for child t of the entry at hand
LatestPostIs(t) ==
    /\ posts # <<>>
    /\ posts[Len(posts)].entry = i
    /\ posts[Len(posts)].ticket = t
    /\ request # NoRequest

\* C10: substitution is never what fails on a dueDate, and leaves the resolved
\* date as it is; what is validated holds the date-resolved and substituted
\* values; and the POST is built from that validated ticket: its summary and
\* its dueDate are the final ones.
C10_ResolutionOrder ==
    /\ \A t \in Held : ~(FailedAt(t, "subst") /\ error.key = "dueDate")
    /\ pc \in {"p_validate", "p_post", "p_posted"} => Final(parent0, parent)
    /\ (FailedAt(0, "validate") \/ FailedAt(0, "post")) => Final(parent0, parent)
    /\ pc = "c_validate" =>
          \A k \in 1..Len(children0) : Final(children0[k], children[k])
    /\ \A k \in 1..Len(children0) :
          FailedAt(k, "validate") =>
             \A m \in 1..Len(children0) : Final(children0[m], children[m])
    /\ (LatestPostIs(0) /\ parent # <<>>) =>
          /\ request.issue = parent
          /\ request.data["summary"] = parent["summary"]
          /\ "dueDate" \in DOMAIN parent0 =>
                request.data["dueDate"] = [type |-> "ymd", day |-> parent["dueDate"].day]
    /\ \A k \in 1..Len(children0) :
          LatestPostIs(k) =>
             /\ request.issue = children[k]
             /\ Final(children0[k], Without(children[k], "parentIssueId"))
             /\ request.data["summary"] = children[k]["summary"]
             /\ "dueDate" \in DOMAIN children0[k] =>
                   request.data["dueDate"] =
                      [type |-> "ymd", day |-> children[k]["dueDate"].day]

\* a parent POSTed with its placeholder replaced and its offset resolved
C10_Witness ==
    /\ pc = "p_posted"
    /\ parent0["summary"] = Str(<<"Sprint ", "{", "n", "}">>)
    /\ parent0["dueDate"] = Delta(5, 1)
    /\ request.data["summary"] = Str(<<"Sprint ", "3">>)
    /\ request.data["dueDate"] = [type |-> "ymd", day |-> 32]
    /\ request.data["issueTypeId"] = IntV(11)

\* ---- the record of a submission ----

\* the "Posted" records of the log, in order
IsPostedMessage(m) == m.msg \in {"Posted", "Posted child"}
PostedMessages == SelectSeq(log, IsPostedMessage)

\* the POSTs the service answered with a created issue, in order
IsCreated(p) == p.id # None
Created == SelectSeq(posts, IsCreated)

\* the run is over
RunEnded == pc \in {"done", "init_done", "failed", "terminated"}

GetOrder == <<"projects", "priorities", "issueTypes", "versions", "users">>

\* the properties GET so far
GetProps == [k \in 1..Len(gets) |-> gets[k].prop]

\* the mapping a GET fills, as it stands
Mapping(prop) ==
    CASE prop = "projects" -> project_id
      [] prop = "priorities" -> priorities
      [] prop = "issueTypes" -> pj_issue_types
      [] prop = "versions" -> pj_versions
      [] prop = "users" -> pj_users

\* the value of a mapping that was never filled
Unset(prop) == IF prop = "projects" THEN 0 ELSE <<>>

\* what the service holds for a mapping
Served(prop) ==
    CASE prop = "projects" -> ServerProjects[project_key]
      [] prop = "priorities" -> ServerPriorities
      [] prop = "issueTypes" -> ServerIssueTypes
      [] prop = "versions" -> ServerVersions
      [] prop = "users" -> ServerUsers

\* the five mappings are filled from the answers of the service
CacheBuilt ==
    /\ api_key \notin {None, Str(<<>>)}
    /\ GetProps = GetOrder
    /\ \A k \in 1..Len(GetOrder) : Mapping(GetOrder[k]) = Served(GetOrder[k])

\* the run is at work on the tickets of the template
Submitting ==
    pc \in {"loop", "p_date", "p_subst", "p_validate", "p_post", "p_posted",
            "c_date", "c_subst", "c_validate", "c_post", "done"}

PostKeys == [k \in 1..Len(posts) |-> <<posts[k].entry, posts[k].ticket>>]

\* the tickets of the first n entries in template order: the parent (ticket
\* 0) of an entry, then its children in order
RECURSIVE TemplateOrder(_)
TemplateOrder(n) ==
    IF n = 0 THEN <<>>
    ELSE TemplateOrder(n - 1) \o [t \in 1..(issues[n] + 1) |-> <<n, t - 1>>]

\* C13 (order): a run that returns without error has read every entry it
\* took up, and its POSTs are the tickets of these entries, each once, in
\* template order, every one answered with a created issue of its own; and at
\* any time a POST follows the POST of the ticket just before it in template
\* order, which was answered before it was sent.
C13_PostsInTemplateOrder ==
    /\ pc = "done" =>
          /\ error = NoError
          /\ is_yes(answer)
          /\ Len(issues) = i
          /\ PostKeys = TemplateOrder(i)
          /\ \A k \in 1..Len(posts) : posts[k].id # None
          /\ \A k, m \in 1..Len(posts) : posts[k].id = posts[m].id => k = m
    /\ posts # <<>> => PostKeys[1] = <<1, 0>>
    /\ \A k \in 1..(Len(posts) - 1) :
          /\ posts[k].id # None
          /\ \/ /\ posts[k + 1].entry = posts[k].entry
                /\ posts[k + 1].ticket = posts[k].ticket + 1
             \/ /\ posts[k + 1].entry = posts[k].entry + 1
                /\ posts[k + 1].ticket = 0
                /\ posts[k].ticket = issues[posts[k].entry]

\* the steps a run can still take at most: those left in the entry at hand,
\* those of the entries not yet taken up, and those before the first entry
StepsLeft ==
    LET perEntry == MaxChildren + 10
        ahead == (MaxEntries - i) * perEntry + 1
    IN CASE pc = "init" -> 5
         [] pc = "init_new" -> 2
         [] pc = "init_confirm" -> 4
         [] pc = "init_getpass" -> 3
         [] pc = "init_delete" -> 2
         [] pc = "init_set" -> 1
         [] pc = "start" -> ahead + 8
         [] pc = "confirm" -> ahead + 7
         [] pc = "get_password" -> ahead + 6
         [] pc = "get_projects" -> ahead + 5
         [] pc = "get_priorities" -> ahead + 4
         [] pc = "get_issueTypes" -> ahead + 3
         [] pc = "get_versions" -> ahead + 2
         [] pc = "get_users" -> ahead + 1
         [] pc = "loop" -> ahead
         [] pc = "p_date" -> ahead + MaxChildren + 9
         [] pc = "p_subst" -> ahead + MaxChildren + 8
         [] pc = "p_validate" -> ahead + MaxChildren + 7
         [] pc = "p_post" -> ahead + MaxChildren + 6
         [] pc = "p_posted" -> ahead + MaxChildren + 5
         [] pc = "c_date" -> ahead + MaxChildren + 4
         [] pc = "c_subst" -> ahead + MaxChildren + 3
         [] pc = "c_validate" -> ahead + MaxChildren + 2
         [] pc = "c_post" -> ahead + 1 + (Len(children) - j)
         [] OTHER -> 0

\* C13: the run ends: every step leaves fewer steps to take, never fewer
\* than none; its POSTs are in template order, one at a time, and they are
\* all the tickets of the template, each once, when the run ends without
\* error.
C13_PostsAllInOrder ==
    /\ []C13_PostsInTemplateOrder
    /\ [](StepsLeft >= 0)
    /\ [][StepsLeft' < StepsLeft]_vars

\* a run returned after the POSTs of two entries, the first with two children
\* and the second with one
C13_Witness ==
    /\ pc = "done"
    /\ issues = <<2, 1>>
    /\ PostKeys = <<(<<1, 0>>), (<<1, 1>>), (<<1, 2>>), (<<2, 0>>), (<<2, 1>>)>>

\* ---- the credential store under init ----

\* init found a credential stored and the user confirmed the override
Overriding ==
    /\ pc \in {"init_getpass", "init_delete", "init_set"}
    /\ is_yes(answer)

\* C14 as stated: while init overrides a stored credential, the store holds a
\* credential in every intermediate state: the old one until the new one is
\* stored.
C14_Original == Overriding => keyring # None

\* ---- the metadata after construction ----

\* C15 (construction): the GETs are those of the construction, each at most
\* once and in the order projects, priorities, issueTypes, versions, users;
\* the first two are space-wide and the others are sent for the project id
\* the first one resolved.
C15_GetsInOrder ==
    /\ Len(gets) <= Len(GetOrder)
    /\ GetProps = SubSeq(GetOrder, 1, Len(gets))
    /\ \A k \in 1..Len(gets) :
          IF k <= 2
          THEN gets[k] = SpaceGet(GetOrder[k])
          ELSE /\ gets[k].scope = "project"
               /\ gets[k].project = ServerProjects[project_key]
               /\ gets[k].project = project_id

\* C15 (frame): no step of the submission (post_affiliated_issue with its
\* post_issue and __validate_issue) changes the project id, the key or a
\* mapping, or sends a GET.
C15_SubmissionReadsOnly ==
    Submitting => UNCHANGED <<cache, gets>>

\* C15: the metadata is fetched once, in order, on construction, and is
\* read-only afterward.
C15_CacheBuiltOnceThenReadOnly ==
    /\ []C15_GetsInOrder
    /\ [](Submitting => CacheBuilt)
    /\ [][C15_SubmissionReadsOnly]_vars

\* two entries were submitted, six POSTs in all, with the five GETs of the
\* construction and the mappings as the service answered them
C15_Witness ==
    /\ pc = "done"
    /\ Len(posts) = 6
    /\ Len(gets) = 5
    /\ CacheBuilt

\* ---- what init does to a stored credential ----

\* a step of init with a credential stored leaves the store as it is unless
\* it is the delete, taken after the user said yes and typed a new key
C16_StoreStep ==
    (keyring # None /\ keyring' # keyring) =>
       /\ pc = "init_delete"
       /\ keyring' = None
       /\ is_yes(answer)
       /\ new_api_key \in Getpass

\* while the user has not said yes, or no new key is entered, a stored
\* credential stays as it is
C16_StoreKept ==
    (keyring # None /\ (~is_yes(answer') \/ new_api_key' = None)) =>
       keyring' = keyring

\* C16: with a credential stored, init deletes it only after the user
\* confirmed the override and a new key was entered; when the user declines,
\* or the run stops before a new key is entered, no step changes the store.
C16_DeleteOnlyAfterEntry ==
    /\ [][C16_StoreStep]_vars
    /\ [][C16_StoreKept]_vars
    /\ []((pc = "init_done" /\ ~is_yes(answer)) => keyring # None)
    /\ []((pc = "failed" /\ error.stage = "getpass" /\ is_yes(answer)) =>
             keyring # None)

\* the stored credential has just been deleted: the user had said yes and the
\* new key was typed before
C16_Witness ==
    /\ pc = "init_set"
    /\ is_yes(answer)
    /\ keyring = None
    /\ new_api_key = Str(<<"new">>)

\* ---- the children of a group ----

\* the child POSTs of entry e
ChildPosts(e) == {k \in 1..Len(posts) : posts[k].entry = e /\ posts[k].ticket > 0}

\* child m of the group at hand is date-resolved, substituted and valid
ChildResolved(m) ==
    LET child == Without(children[m], "parentIssueId")
    IN /\ Final(children0[m], child)
       /\ validate_issue(child, m).ok

\* C17: no child of a group is POSTed while the children are being resolved;
\* when date resolution, substitution or validation of a child fails, no
\* child of the group has been POSTed, the valid ones before it included;
\* and when a child has been POSTed, every child of the group is
\* date-resolved, substituted and valid.
C17_ChildrenResolvedBeforeChildPost ==
    /\ pc \in {"c_date", "c_subst", "c_validate"} => ChildPosts(i) = {}
    /\ \A t \in 1..Len(children0) :
          \A stage \in ResolveStages :
             FailedAt(t, stage) => ChildPosts(i) = {}
    /\ ChildPosts(i) # {} =>
          /\ pc \in {"c_post", "failed", "loop", "done"}
          /\ pc = "failed" => error.stage = "post" /\ error.ticket > 0
          /\ pc \in {"c_post", "failed"} =>
                /\ Len(children) = Len(children0)
                /\ \A m \in 1..Len(children0) : ChildResolved(m)

\* validation of the second child failed, the first child being valid: the
\* parent of the group is POSTed, and no child
C17_Witness ==
    /\ FailedAt(2, "validate")
    /\ Len(children) = 2
    /\ validate_issue(children[1], 1).ok
    /\ ParentPosts(i) # {}
    /\ ChildPosts(i) = {}

\* ---- the depth of the issues ----

\* the children of the group at hand that have a children list of their own
Nesting == {t \in 1..Len(children0) : "children" \in DOMAIN children0[t]}

\* C18: a child that has children of its own is never POSTed: it does not
\* get past substitution, and no child of its group is POSTed; what is
\* POSTed carries no children list; and every POST is for the parent of an
\* entry, sent without parentIssueId, or for a child in the list of that
\* parent, sent with the id of the parent POST: no POST is for a ticket a
\* level deeper.
C18_TwoLevels ==
    /\ Nesting # {} =>
          /\ pc \notin {"c_validate", "c_post"}
          /\ ChildPosts(i) = {}
    /\ "children" \notin DOMAIN request.issue
    /\ "children" \notin DOMAIN request.data
    /\ \A k \in 1..Len(posts) :
          IF posts[k].ticket = 0
          THEN posts[k].parentIssueId = None
          ELSE \E m \in 1..(k - 1) :
                  /\ posts[m].entry = posts[k].entry
                  /\ posts[m].ticket = 0
                  /\ posts[m].parentIssueId = None
                  /\ posts[k].parentIssueId = posts[m].id
    /\ pc \in {"c_post", "failed"} =>
          \A k \in ChildPosts(i) :
             posts[k].ticket \in (1..Len(children0)) \ Nesting

\* the second child of a group has children of its own: substitution fails on
\* its children list, after the parent was POSTed and before any child was
C18_Witness ==
    /\ FailedAt(2, "subst")
    /\ error.kind = "AttributeError"
    /\ error.key = "children"
    /\ 2 \in Nesting
    /\ ParentPosts(i) # {}
    /\ ChildPosts(i) = {}

====
